---------------------------- MODULE Spec2Model ----------------------------
(***************************************************************************)
(* A model of LIBTwinSVM's model-selection and pre-processing code:        *)
(*   libtsvm/model_selection.py  eval_metrics, Validator, search_space,    *)
(*                               ThreadGS.run_gs, initialize               *)
(*   libtsvm/preprocess.py       DataReader                                *)
(*                                                                         *)
(* Several components share this module.  Each has its own variables, its *)
(* own initial predicate and next-state relation, and a specification in   *)
(* which the other components' variables rest at their idle values:        *)
(*   Spec         the grid-search sweep of ThreadGS.run_gs                 *)
(*   SpecMetrics  one call of eval_metrics                                 *)
(*   SpecSearch   one call of search_space                                 *)
(*   SpecData     a DataReader object and the calls made on it             *)
(*   SpecInitialize  one call of initialize                                *)
(*   SpecCV       one call of Validator.cv_validator                       *)
(*   SpecSweepCV  the sweep of run_gs with cv_validator evaluating         *)
(*                                                                         *)
(* Python floats are modelled as exact rationals <<num, den>> in lowest    *)
(* terms (den > 0); every score of the program is a ratio of small counts. *)
(***************************************************************************)
EXTENDS Integers, Sequences, FiniteSets

VARIABLES
    \* ---- eval_metrics (SpecMetrics)
    y_true,        \* argument y_true
    y_pred,        \* argument y_pred
    em_pc,         \* "call" before the call, "done" after it
    em_result,     \* what the call produced
    \* ---- search_space (SpecSearch)
    ss_args,       \* the arguments of the call
    ss_pc,         \* "call" | "done"
    ss_result,     \* what the call produced
    \* ---- DataReader (SpecData)
    file,          \* the rows of the file at file_path
    header,        \* self.header
    attrs,         \* the attributes load_data sets on the object
    dr_last,       \* outcome of the last call made on the object
    completed,     \* history: what the last load_data that completed stored
    \* ---- ThreadGS.run_gs (Spec)
    usr_input,     \* self.usr_input
    y_test,        \* labels of the test part of train_test_split(random_state=42)
    gs_pc,         \* "start" | "loop" | "done" | "raised"
    func_eval,     \* local func_eval
    search_elems,  \* local search_space
    idx,           \* position of the for loop in search_space
    result_list,   \* local result_list
    max_acc,       \* local max_acc
    max_acc_std,   \* local max_acc_std
    run,           \* local run
    printed,       \* the "Best Acc" line, once printed
    evals,         \* history: the outcome of func_eval at each point visited
    \* ---- initialize (SpecInitialize)
    in_args,       \* argument user_input_obj
    in_pc,         \* "call" | "done"
    in_result,     \* the Validator initialize built and what it returned
    \* ---- Validator.cv_validator (SpecCV, SpecSweepCV)
    labels_data,   \* self.labels_data
    n_folds,       \* self.validator[1]
    cv_pc,         \* "call" | "done"
    cv_result      \* what the call produced, with the splits it went through

metricsVars == <<y_true, y_pred, em_pc, em_result>>
searchVars  == <<ss_args, ss_pc, ss_result>>
dataVars    == <<file, header, attrs, dr_last, completed>>
gsVars      == <<usr_input, y_test, gs_pc, func_eval, search_elems, idx,
                 result_list, max_acc, max_acc_std, run, printed, evals>>
initVars    == <<in_args, in_pc, in_result>>
cvVars      == <<labels_data, n_folds, cv_pc, cv_result>>
vars        == <<metricsVars, searchVars, dataVars, gsVars, initVars, cvVars>>

----------------------------------------------------------------------------
(* Bounds of the model *)

\* longest label array handed to eval_metrics in SpecMetrics
MaxLen == 4

----------------------------------------------------------------------------
(* Exact rationals for Python's float arithmetic *)

RECURSIVE GCD(_, _)
GCD(a, b) == IF b = 0 THEN a ELSE GCD(b, a % b)

Abs(n) == IF n < 0 THEN -n ELSE n

\* n/d in lowest terms, d # 0
Frac(n, d) ==
    LET g == GCD(Abs(n), Abs(d))
        s == IF d < 0 THEN -1 ELSE 1
    IN  <<s * (n \div g), s * (d \div g)>>

Zero == <<0, 1>>

RAdd(p, q) == Frac(p[1] * q[2] + q[1] * p[2], p[2] * q[2])
RMul(p, q) == Frac(p[1] * q[1], p[2] * q[2])
\* p / q, q # 0
RDiv(p, q) == Frac(p[1] * q[2], p[2] * q[1])
RLess(p, q) == p[1] * q[2] < q[1] * p[2]
Times100(p) == RMul(p, <<100, 1>>)

----------------------------------------------------------------------------
(* eval_metrics: model_selection.py 17-124 *)

Labels == {-1, 1}

\* the values a label array may hold; 0 stands for any value that is neither
\* +1 nor -1
LabelValues == {-1, 0, 1}

\* one iteration of the counting loop, lines 71-89
CountSample_NoFn(c, t, p) ==
    IF t = 1 /\ p = 1 THEN [c EXCEPT !.tp = @ + 1]
    ELSE IF t = -1 /\ p = -1 THEN [c EXCEPT !.tn = @ + 1]
    ELSE IF t = -1 /\ p = 1 THEN [c EXCEPT !.fp = @ + 1]
    ELSE c

CountSample(c, t, p) ==
    IF t = 1 /\ p = 1 THEN [c EXCEPT !.tp = @ + 1]
    ELSE IF t = -1 /\ p = -1 THEN [c EXCEPT !.tn = @ + 1]
    ELSE IF t = -1 /\ p = 1 THEN [c EXCEPT !.fp = @ + 1]
    ELSE IF t = 1 /\ p = -1 THEN [c EXCEPT !.fn = @ + 1]
    ELSE c

\* the loop of lines 67-89, from index i on
RECURSIVE CountLoop(_, _, _, _)
CountLoop(yt, yp, i, c) ==
    IF i > Len(yt) THEN c
    ELSE CountLoop(yt, yp, i + 1, CountSample(c, yt[i], yp[i]))

ConfusionCounts(yt, yp) ==
    CountLoop(yt, yp, 1, [tp |-> 0, tn |-> 0, fp |-> 0, fn |-> 0])

\* lines 95-104
InitScores ==
    [accuracy |-> Zero, recall_p |-> Zero, precision_p |-> Zero, f1_p |-> Zero,
     recall_n |-> Zero, precision_n |-> Zero, f1_n |-> Zero, exc |-> "none"]

\* a division whose divisor is zero raises; the statements after it do not run
RaiseZeroDivision(s) == [s EXCEPT !.exc = "ZeroDivisionError"]

\* line 112 and line 117: (2 * r * p) / (p + r)
F1(r, p) == RDiv(RMul(<<2, 1>>, RMul(r, p)), RAdd(p, r))

\* the body of the try block, lines 108-117, statement by statement
TryScores(c) ==
    LET positives == c.tp + c.fp
        negatives == c.tn + c.fn
        s0 == InitScores
    IN
    IF positives + negatives = 0 THEN RaiseZeroDivision(s0) ELSE
    LET s1 == [s0 EXCEPT !.accuracy = Frac(c.tp + c.tn, positives + negatives)] IN
    IF c.tp + c.fn = 0 THEN RaiseZeroDivision(s1) ELSE
    LET s2 == [s1 EXCEPT !.recall_p = Frac(c.tp, c.tp + c.fn)] IN
    IF c.tp + c.fp = 0 THEN RaiseZeroDivision(s2) ELSE
    LET s3 == [s2 EXCEPT !.precision_p = Frac(c.tp, c.tp + c.fp)] IN
    IF RAdd(s3.precision_p, s3.recall_p) = Zero THEN RaiseZeroDivision(s3) ELSE
    LET s4 == [s3 EXCEPT !.f1_p = F1(s3.recall_p, s3.precision_p)] IN
    IF c.tn + c.fp = 0 THEN RaiseZeroDivision(s4) ELSE
    LET s5 == [s4 EXCEPT !.recall_n = Frac(c.tn, c.tn + c.fp)] IN
    IF c.tn + c.fn = 0 THEN RaiseZeroDivision(s5) ELSE
    LET s6 == [s5 EXCEPT !.precision_n = Frac(c.tn, c.tn + c.fn)] IN
    IF RAdd(s6.precision_n, s6.recall_n) = Zero THEN RaiseZeroDivision(s6) ELSE
    [s6 EXCEPT !.f1_n = F1(s6.recall_n, s6.precision_n)]

\* a handler that catches nothing
ExceptNothing(s) == s

\* lines 119-121: except ZeroDivisionError: pass
ExceptZeroDivisionError(s) ==
    IF s.exc = "ZeroDivisionError" THEN [s EXCEPT !.exc = "none"] ELSE s

\* the tuple of lines 123-124, with the way the function was left
ReturnTuple(c, s) ==
    [status      |-> IF s.exc = "none" THEN "returned" ELSE "raised",
     tp          |-> c.tp,
     tn          |-> c.tn,
     fp          |-> c.fp,
     fn          |-> c.fn,
     accuracy    |-> Times100(s.accuracy),
     recall_p    |-> Times100(s.recall_p),
     precision_p |-> Times100(s.precision_p),
     f1_p        |-> Times100(s.f1_p),
     recall_n    |-> Times100(s.recall_n),
     precision_n |-> Times100(s.precision_n),
     f1_n        |-> Times100(s.f1_n)]

\* lines 91-124, from the counts on
ScoresOf(c) == ReturnTuple(c, ExceptZeroDivisionError(TryScores(c)))

\* the whole function: status "returned" with the tuple of line 123, or
\* "raised" when an exception leaves the function
EvalMetrics(yt, yp) == ScoresOf(ConfusionCounts(yt, yp))

NoResult == [status |-> "none"]

InitMetrics ==
    /\ \E n \in 0..MaxLen :
          /\ y_true \in [1..n -> LabelValues]
          /\ y_pred \in [1..n -> LabelValues]
    /\ em_pc = "call"
    /\ em_result = NoResult

IdleMetrics ==
    /\ y_true = <<>>
    /\ y_pred = <<>>
    /\ em_pc = "idle"
    /\ em_result = NoResult

EvalMetricsCall ==
    /\ em_pc = "call"
    /\ em_result' = EvalMetrics(y_true, y_pred)
    /\ em_pc' = "done"
    /\ UNCHANGED <<y_true, y_pred>>
    /\ UNCHANGED <<searchVars, dataVars, gsVars, initVars, cvVars>>

----------------------------------------------------------------------------
(* search_space: model_selection.py 372-427 *)

\* exponents of the hyper-parameter ranges run over -MaxNegExp..MaxExp
MaxNegExp == 1
MaxExp == 2
\* the step argument runs over 1..MaxStep
MaxStep == 2

RECURSIVE IntPow2(_)
IntPow2(n) == IF n = 0 THEN 1 ELSE 2 * IntPow2(n - 1)

\* 2**i for a float i holding an integer
Pow2(e) == IF e >= 0 THEN <<IntPow2(e), 1>> ELSE <<1, IntPow2(-e)>>

\* np.arange(start, stop, step) on integers-as-floats, excluding stop
ArangeUpTo(start, stop, step) ==
    [k \in 1..(IF stop >= start THEN ((stop - start) \div step) + 1 ELSE 0)
        |-> start + (k - 1) * step]

\* np.arange(start, stop, step, dtype=np.float): start, start+step, ... < stop
Arange(start, stop, step) ==
    [k \in 1..(IF stop > start THEN ((stop - start - 1) \div step) + 1 ELSE 0)
        |-> start + (k - 1) * step]

\* [2**i for i in np.arange(r[0], r[1]+1, step)], lines 408-411 and 413
PowRange(r, step) ==
    LET es == Arange(r[1], r[2] + 1, step)
    IN  [k \in 1..Len(es) |-> Pow2(es[k])]

\* lines 413-414
GammaRange(kernel_type, u_range, step) ==
    IF kernel_type = "RBF" THEN PowRange(u_range, step) ELSE << <<1, 1>> >>

\* list(ParameterGrid({'C1': c1s, 'C2': c2s, 'gamma': gs})): the product of the
\* value lists in the order of the sorted keys, the last key varying fastest
ParameterGrid(c1s, c2s, gs) ==
    LET n2 == Len(c2s)
        n3 == Len(gs)
    IN  [k \in 1..(Len(c1s) * n2 * n3) |->
            [C1    |-> c1s[((k - 1) \div (n2 * n3)) + 1],
             C2    |-> c2s[(((k - 1) \div n3) % n2) + 1],
             gamma |-> gs[((k - 1) % n3) + 1]]]

\* a body for the 'partial' branch that binds an empty grid
ParamGridLocal_PartialEmpty(a) ==
    IF a.search_type = "full"
    THEN [bound |-> TRUE,
          grid  |-> ParameterGrid(PowRange(a.C1_range, a.step),
                                  PowRange(a.C2_range, a.step),
                                  GammaRange(a.kernel_type, a.u_range, a.step))]
    ELSE [bound |-> TRUE, grid |-> <<>>]

\* the local variable param_grid when line 427 is reached, lines 416-425:
\* bound by the 'full' branch only
ParamGridLocal(a) ==
    IF a.search_type = "full"
    THEN [bound |-> TRUE,
          grid  |-> ParameterGrid(PowRange(a.C1_range, a.step),
                                  PowRange(a.C2_range, a.step),
                                  GammaRange(a.kernel_type, a.u_range, a.step))]
    ELSE [bound |-> FALSE, grid |-> <<>>]

\* the whole function; line 427 reads param_grid, which raises
\* UnboundLocalError when no branch has bound it
SearchSpace(a) ==
    LET pg == ParamGridLocal(a)
    IN  IF pg.bound
        THEN [status |-> "returned", exc |-> "none", points |-> pg.grid]
        ELSE [status |-> "raised", exc |-> "UnboundLocalError", points |-> <<>>]

Exponents == (0 - MaxNegExp)..MaxExp

\* (low, high) pairs with low <= high
ExpRanges == {r \in Exponents \X Exponents : r[1] <= r[2]}

NoArgs == [kernel_type |-> "none"]

InitSearch ==
    /\ ss_args \in [kernel_type : {"linear", "RBF"},
                    search_type : {"full", "partial"},
                    C1_range    : ExpRanges,
                    C2_range    : ExpRanges,
                    u_range     : ExpRanges,
                    step        : 1..MaxStep]
    /\ ss_pc = "call"
    /\ ss_result = NoResult

IdleSearch ==
    /\ ss_args = NoArgs
    /\ ss_pc = "idle"
    /\ ss_result = NoResult

SearchSpaceCall ==
    /\ ss_pc = "call"
    /\ ss_result' = SearchSpace(ss_args)
    /\ ss_pc' = "done"
    /\ UNCHANGED ss_args
    /\ UNCHANGED <<metricsVars, dataVars, gsVars, initVars, cvVars>>

----------------------------------------------------------------------------
(* DataReader: preprocess.py 20-130 *)

\* a file holds 0..MaxRows rows
MaxRows == 3

\* A file is a sequence of rows of two cells: the first column (the label
\* column) and one feature column.  A feature cell is a number or text.
NumCell(v) == [kind |-> "num", v |-> v]
TextCell == [kind |-> "text", v |-> 0]
FeatCells == {NumCell(1), NumCell(2), TextCell}
Rows == [label : Labels, feat : FeatCells]

\* self.file_path, set by __init__ (line 52) and never changed
FilePath == [dir |-> "datasets", stem |-> "data", ext |-> ".csv"]

\* splitext(split(path)[-1])[0], line 89
BaseName(path) == path.stem

\* pd.read_csv(self.file_path, sep=self.sep), line 70: no header argument is
\* passed, so the first row of the file always becomes the column names,
\* whatever self.header says; a file with no row raises
ReadCsv(rows, hdr) ==
    IF rows = <<>>
    THEN [exc |-> "EmptyDataError", columns |-> <<>>, data |-> <<>>]
    ELSE [exc |-> "none", columns |-> <<rows[1].feat>>, data |-> Tail(rows)]

\* the orders df.sample(frac=1) can leave the rows in, line 74
Permutations(rows) ==
    {[k \in 1..Len(rows) |-> rows[f[k]]] :
        f \in {g \in [1..Len(rows) -> 1..Len(rows)] :
                  \A i, j \in 1..Len(rows) : g[i] = g[j] => i = j}}

\* df.iloc[:, 0].values.astype(np.int), line 79
LabelColumn(data) == [k \in 1..Len(data) |-> data[k].label]

\* the frame after df.drop(df.columns[0], ...), line 80
FeatureColumn(data) == [k \in 1..Len(data) |-> data[k].feat]

\* (df - df.mean()) / df.std(), line 84, on the feature column: whether the
\* statement can raise (TRUE) and whether it can complete (FALSE).  Numbers
\* never raise (a constant column gives non-finite values).  On a column that
\* holds text the pandas releases differ: subtracting a float from a string
\* raises TypeError in some, others fill the column with NaN.
NormalizeOutcomes(feats) ==
    IF \E k \in 1..Len(feats) : feats[k].kind = "text"
    THEN {TRUE, FALSE}
    ELSE {FALSE}

\* df.values, line 87; the standardised values are kept symbolically, as the
\* frame they were computed from with the flag normalized
Values(feats, normalize) == [normalized |-> normalize, rows |-> feats]

NoAttrs ==
    [y_set |-> FALSE, y_train |-> <<>>,
     rest_set |-> FALSE, X_train |-> Values(<<>>, FALSE),
     hdr_names |-> <<>>, filename |-> ""]

NoCall ==
    [op |-> "none", status |-> "none", exc |-> "none",
     X |-> Values(<<>>, FALSE), y |-> <<>>, filename |-> "", n_samples |-> 0]

Returned(op) == [NoCall EXCEPT !.op = op, !.status = "returned"]
Raised(op, exc) == [NoCall EXCEPT !.op = op, !.status = "raised", !.exc = exc]

NoneCompleted ==
    [any |-> FALSE, X_train |-> Values(<<>>, FALSE), y_train |-> <<>>,
     filename |-> ""]

InitData ==
    /\ file \in UNION {[1..n -> Rows] : n \in 0..MaxRows}
    /\ header \in BOOLEAN
    /\ attrs = NoAttrs
    /\ dr_last = NoCall
    /\ completed = NoneCompleted

IdleData ==
    /\ file = <<>>
    /\ header = FALSE
    /\ attrs = NoAttrs
    /\ dr_last = NoCall
    /\ completed = NoneCompleted

\* load_data(shuffle, normalize), lines 57-89.  An exception leaves the
\* attributes assigned before it in place.
LoadData(shuffle, normalize) ==
    LET df == ReadCsv(file, header) IN
    /\ UNCHANGED <<file, header>>
    /\ UNCHANGED <<metricsVars, searchVars, gsVars, initVars, cvVars>>
    /\ IF df.exc # "none"
       THEN \* line 70 raises
            /\ dr_last' = Raised("load_data", df.exc)
            /\ UNCHANGED <<attrs, completed>>
       ELSE \E data \in (IF shuffle THEN Permutations(df.data) ELSE {df.data}) :
            LET feats == FeatureColumn(data)
                a1 == [attrs EXCEPT !.y_set = TRUE, !.y_train = LabelColumn(data)]
            IN
            \E raises \in (IF normalize THEN NormalizeOutcomes(feats) ELSE {FALSE}) :
            IF raises
            THEN \* line 84 raises, after line 79 has set self.y_train
                 /\ attrs' = a1
                 /\ dr_last' = Raised("load_data", "TypeError")
                 /\ UNCHANGED completed
            ELSE /\ attrs' = [a1 EXCEPT !.rest_set = TRUE,
                                        !.X_train = Values(feats, normalize),
                                        !.hdr_names = IF header THEN df.columns
                                                      ELSE <<>>,
                                        !.filename = BaseName(FilePath)]
                 /\ dr_last' = [Returned("load_data") EXCEPT
                                    !.n_samples = Len(data)]
                 /\ completed' = [any |-> TRUE,
                                  X_train |-> Values(feats, normalize),
                                  y_train |-> LabelColumn(data),
                                  filename |-> BaseName(FilePath)]

\* get_data(), lines 107-115
GetData ==
    /\ dr_last' =
          \* hasattr for X_train, y_train and filename
          IF attrs.rest_set /\ attrs.y_set
          THEN [Returned("get_data") EXCEPT !.X = attrs.X_train,
                                            !.y = attrs.y_train,
                                            !.filename = attrs.filename,
                                            !.n_samples = Len(attrs.y_train)]
          ELSE Raised("get_data", "AttributeError")
    /\ UNCHANGED <<file, header, attrs, completed>>
    /\ UNCHANGED <<metricsVars, searchVars, gsVars, initVars, cvVars>>

\* get_data_info(), lines 127-130: reading an attribute that was never set
\* raises AttributeError
GetDataInfo ==
    /\ dr_last' =
          IF ~attrs.y_set THEN Raised("get_data_info", "AttributeError")
          ELSE IF ~attrs.rest_set THEN Raised("get_data_info", "AttributeError")
          ELSE [Returned("get_data_info") EXCEPT
                    !.n_samples = Len(attrs.X_train.rows)]
    /\ UNCHANGED <<file, header, attrs, completed>>
    /\ UNCHANGED <<metricsVars, searchVars, gsVars, initVars, cvVars>>

----------------------------------------------------------------------------
(* Validator, initialize and ThreadGS.run_gs: model_selection.py 127-556 *)

\* the test part of the split holds 1..MaxTest samples
MaxTest == 2
\* the sweep's C1 range is (0, h) with h in 0..MaxGsExp
MaxGsExp == 2

\* the mapping of lines 280-283: the metrics merged with dict_param
ResultMapping(m, dict_param) ==
    [accuracy |-> m.accuracy, recall_p |-> m.recall_p,
     precision_p |-> m.precision_p, f1_p |-> m.f1_p, recall_n |-> m.recall_n,
     precision_n |-> m.precision_n, f1_n |-> m.f1_n,
     tp |-> m.tp, tn |-> m.tn, fp |-> m.fp, fn |-> m.fn,
     C1 |-> dict_param.C1, C2 |-> dict_param.C2, gamma |-> dict_param.gamma]

\* the return of a tt_validator that reports the accuracy a second time as
\* its deviation
TtReturn_StdFromAccuracy(m, dict_param) ==
    [status |-> m.status, acc |-> m.accuracy, acc_std |-> m.accuracy,
     result |-> ResultMapping(m, dict_param)]

\* lines 275-283: the return of tt_validator, m being what eval_metrics returned
TtReturn(m, dict_param) ==
    [status |-> m.status, acc |-> m.accuracy, acc_std |-> Zero,
     result |-> ResultMapping(m, dict_param)]

\* tt_validator, lines 264-283, once the estimator is fitted: yt is the test
\* part of the labels and output what self.estimator.predict returned for it
TtValidator(dict_param, yt, output) ==
    TtReturn(EvalMetrics(yt, output), dict_param)

\* ---- cv_validator, lines 186-239

\* the largest dataset handed to cv_validator
MaxSamples == 4
\* the sweep with cv_validator has a C1 range (0, h) with h in 0..MaxCvExp
MaxCvExp == 1

RSub(p, q) == RAdd(p, <<0 - q[1], q[2]>>)

RECURSIVE RSum(_)
RSum(xs) == IF xs = <<>> THEN Zero ELSE RAdd(Head(xs), RSum(Tail(xs)))

RECURSIVE Sum(_)
Sum(xs) == IF xs = <<>> THEN 0 ELSE Head(xs) + Sum(Tail(xs))

\* np.mean of a non-empty list
Mean(xs) == RDiv(RSum(xs), <<Len(xs), 1>>)

SquaredDeviations(xs, mu) ==
    [i \in 1..Len(xs) |-> RMul(RSub(xs[i], mu), RSub(xs[i], mu))]

\* np.std of a non-empty list (the population deviation), represented by its
\* square: the program stores, copies and prints deviations and never
\* computes with them, and squaring is one-to-one on the values np.std returns
StdSquared(xs) == Mean(SquaredDeviations(xs, Mean(xs)))

\* a split that gives every fold n // k samples
FoldSize_NoRemainder(n, k, j) == n \div k

\* KFold(k).split over n samples, lines 188 and 200 (no shuffling): fold j of
\* 1..k is a block of consecutive samples, the first n % k folds holding
\* n // k + 1 of them and the others n // k.  Positions are 1..n for
\* Python's 0..n-1.
FoldSize(n, k, j) == (n \div k) + (IF j <= n % k THEN 1 ELSE 0)

RECURSIVE FoldStart(_, _, _)
FoldStart(n, k, j) ==
    IF j = 1 THEN 1 ELSE FoldStart(n, k, j - 1) + FoldSize(n, k, j - 1)

\* test_index of iteration j
TestIndex(n, k, j) ==
    [i \in 1..FoldSize(n, k, j) |-> FoldStart(n, k, j) + i - 1]

\* train_index of iteration j: every position outside fold j, ascending
TrainIndex(n, k, j) ==
    [i \in 1..(n - FoldSize(n, k, j)) |->
        IF i < FoldStart(n, k, j) THEN i ELSE i + FoldSize(n, k, j)]

\* the pairs the loop of line 200 goes through
KFoldSplit(n, k) ==
    [j \in 1..k |-> [train_index |-> TrainIndex(n, k, j),
                     test_index  |-> TestIndex(n, k, j)]]

\* np.take(arr, index, axis=0), lines 203-207
Take(arr, index) == [i \in 1..Len(index) |-> arr[index[i]]]

\* line 213 in the iteration that holds fold out; outs[i] is what
\* self.estimator.predict returns for sample i when it is held out
FoldMetrics(labels, fold, outs) ==
    EvalMetrics(Take(labels, fold.test_index), Take(outs, fold.test_index))

\* the list a metric is appended to in lines 215-223, or a count of 226-229
Column(ms, key) == [i \in 1..Len(ms) |-> ms[i][key]]

\* the mapping of lines 231-239, ms being the eval_metrics results fold by fold
CvMapping(ms, dict_param) ==
    [accuracy    |-> Mean(Column(ms, "accuracy")),
     acc_std     |-> StdSquared(Column(ms, "accuracy")),
     recall_p    |-> Mean(Column(ms, "recall_p")),
     r_p_std     |-> StdSquared(Column(ms, "recall_p")),
     precision_p |-> Mean(Column(ms, "precision_p")),
     p_p_std     |-> StdSquared(Column(ms, "precision_p")),
     f1_p        |-> Mean(Column(ms, "f1_p")),
     f1_p_std    |-> StdSquared(Column(ms, "f1_p")),
     recall_n    |-> Mean(Column(ms, "recall_n")),
     r_n_std     |-> StdSquared(Column(ms, "recall_n")),
     precision_n |-> Mean(Column(ms, "precision_n")),
     p_n_std     |-> StdSquared(Column(ms, "precision_n")),
     f1_n        |-> Mean(Column(ms, "f1_n")),
     f1_n_std    |-> StdSquared(Column(ms, "f1_n")),
     tp |-> Sum(Column(ms, "tp")), tn |-> Sum(Column(ms, "tn")),
     fp |-> Sum(Column(ms, "fp")), fn |-> Sum(Column(ms, "fn")),
     C1 |-> dict_param.C1, C2 |-> dict_param.C2, gamma |-> dict_param.gamma]

\* line 231: the return of cv_validator
CvReturn(ms, dict_param) ==
    [status  |-> IF \A i \in 1..Len(ms) : ms[i].status = "returned"
                 THEN "returned" ELSE "raised",
     acc     |-> Mean(Column(ms, "accuracy")),
     acc_std |-> StdSquared(Column(ms, "accuracy")),
     result  |-> CvMapping(ms, dict_param)]

\* cv_validator with 2 <= k <= Len(labels), every fit and predict returning
CvValidator(dict_param, labels, k, outs) ==
    CvReturn([j \in 1..k |->
                 FoldMetrics(labels, KFoldSplit(Len(labels), k)[j], outs)],
             dict_param)

\* a choose_validator that hands the train/test-split evaluation to a
\* multiclass problem as well
ChooseValidator_SplitForMulticlass(problem_type, validator) ==
    IF validator[1] = "CV"
    THEN IF problem_type = "binary" THEN "cv_validator"
         ELSE IF problem_type = "multiclass" THEN "cv_validator_mc"
         ELSE "None"
    ELSE IF validator[1] = "t_t_split" /\ problem_type \in {"binary", "multiclass"}
    THEN "tt_validator"
    ELSE "None"

\* choose_validator, lines 355-369; "None" is Python's None, returned by
\* falling off the end of the function
ChooseValidator(problem_type, validator) ==
    IF problem_type = "binary"
    THEN IF validator[1] = "CV" THEN "cv_validator"
         ELSE IF validator[1] = "t_t_split" THEN "tt_validator"
         ELSE "None"
    ELSE IF problem_type = "multiclass"
    THEN IF validator[1] = "CV" THEN "cv_validator_mc" ELSE "None"
    ELSE "None"

\* a clf_obj that is reset to None when the multiclass scheme is not known
Estimator_UnknownSchemeUnset(u) ==
    LET base == IF u.clf_type = "tsvm" THEN "TSVM"
                ELSE IF u.clf_type = "lstsvm" THEN "LSTSVM"
                ELSE "None"
    IN  IF u.class_type = "multiclass"
        THEN IF u.mc_scheme = "ova"
             THEN [wrapper |-> "OneVsAllClassifier", estimator |-> base]
             ELSE IF u.mc_scheme = "ovo"
             THEN [wrapper |-> "OneVsOneClassifier", estimator |-> base]
             ELSE [wrapper |-> "none", estimator |-> "None"]
        ELSE [wrapper |-> "none", estimator |-> base]

\* clf_obj of initialize, lines 528-546: estimator is the TSVM or LSTSVM object
\* of lines 530-536 ("None" when neither was built), wrapper the multiclass
\* classifier of lines 540-546 built around it ("none" when none was)
Estimator(u) ==
    LET base == IF u.clf_type = "tsvm" THEN "TSVM"
                ELSE IF u.clf_type = "lstsvm" THEN "LSTSVM"
                ELSE "None"
    IN  IF u.class_type = "multiclass"
        THEN IF u.mc_scheme = "ova"
             THEN [wrapper |-> "OneVsAllClassifier", estimator |-> base]
             ELSE IF u.mc_scheme = "ovo"
             THEN [wrapper |-> "OneVsOneClassifier", estimator |-> base]
             ELSE [wrapper |-> "none", estimator |-> base]
        ELSE [wrapper |-> "none", estimator |-> base]

\* initialize, lines 528-556
Initialize(u) ==
    [estimator   |-> Estimator(u),
     eval_method |-> ChooseValidator(u.class_type, u.test_method_tuple),
     search_elem |-> SearchSpace([kernel_type |-> u.kernel_type,
                                  search_type |-> "full",
                                  C1_range    |-> u.C1_range,
                                  C2_range    |-> u.C2_range,
                                  u_range     |-> u.u_range,
                                  step        |-> 1])]

\* a comparison that lets an equal accuracy take the place of the best one
Improves_OrEquals(acc, best) == ~RLess(acc, best)

\* line 480: if acc > max_acc
Improves(acc, best) == RLess(best, acc)

\* a handler that catches every exception
CatchesEverything(exc) == TRUE

\* a handler that catches no exception
CatchesNothing(exc) == FALSE

\* line 495: except np.linalg.LinAlgError
Catches(exc) == exc = "LinAlgError"

\* what estimator.fit can raise: a singular system, or anything else
FitErrors == {"LinAlgError", "ValueError"}

NoMapping == [accuracy |-> Zero]

NothingPrinted == [shown |-> FALSE, acc |-> Zero, std |-> Zero]

NoUserInput == [clf_type |-> "none"]

InitGS ==
    /\ y_test \in UNION {[1..n -> Labels] : n \in 1..MaxTest}
    /\ \E k \in {"linear", "RBF"}, h \in 0..MaxGsExp :
          usr_input = [clf_type          |-> "tsvm",
                       class_type        |-> "binary",
                       mc_scheme         |-> "ova",
                       kernel_type       |-> k,
                       test_method_tuple |-> <<"t_t_split", Len(y_test)>>,
                       C1_range          |-> <<0, h>>,
                       C2_range          |-> <<0, 0>>,
                       u_range           |-> <<0, 0>>]
    /\ gs_pc = "start"
    /\ func_eval = "unset"
    /\ search_elems = <<>>
    /\ idx = 0
    /\ result_list = <<>>
    /\ max_acc = Zero
    /\ max_acc_std = Zero
    /\ run = 0
    /\ printed = NothingPrinted
    /\ evals = <<>>

IdleGS ==
    /\ y_test = <<>>
    /\ usr_input = NoUserInput
    /\ gs_pc = "idle"
    /\ func_eval = "unset"
    /\ search_elems = <<>>
    /\ idx = 0
    /\ result_list = <<>>
    /\ max_acc = Zero
    /\ max_acc_std = Zero
    /\ run = 0
    /\ printed = NothingPrinted
    /\ evals = <<>>

otherVarsOfGS == <<metricsVars, searchVars, dataVars, initVars, cvVars>>

\* run_gs, lines 455-465: up to the first iteration of the loop
RunGsStart ==
    /\ gs_pc = "start"
    /\ \E i \in {Initialize(usr_input)} :
          /\ func_eval' = i.eval_method
          /\ IF i.search_elem.status = "returned"
             THEN /\ search_elems' = i.search_elem.points
                  /\ gs_pc' = "loop"
             ELSE /\ search_elems' = <<>>
                  /\ gs_pc' = "raised"
    /\ result_list' = <<>>
    /\ max_acc' = Zero
    /\ max_acc_std' = Zero
    /\ run' = 1
    /\ idx' = 1
    /\ UNCHANGED <<usr_input, y_test, printed, evals>>
    /\ UNCHANGED otherVarsOfGS

\* one iteration of the loop of lines 468-492 in which func_eval returns
EvalReturns ==
    /\ gs_pc = "loop"
    /\ idx <= Len(search_elems)
    /\ func_eval = "tt_validator"
    /\ \E output \in [1..Len(y_test) -> Labels] :
          \E r \in {TtValidator(search_elems[idx], y_test, output)} :
          /\ r.status = "returned"
          /\ result_list' = Append(result_list, r.result)
          /\ IF Improves(r.acc, max_acc)
             THEN /\ max_acc' = r.acc
                  /\ max_acc_std' = r.acc_std
             ELSE UNCHANGED <<max_acc, max_acc_std>>
          /\ evals' = Append(evals, [point |-> idx, outcome |-> "ok",
                                     output |-> output, acc |-> r.acc,
                                     acc_std |-> r.acc_std,
                                     result |-> r.result])
    /\ run' = run + 1
    /\ idx' = idx + 1
    /\ UNCHANGED <<usr_input, y_test, gs_pc, func_eval, search_elems, printed>>
    /\ UNCHANGED otherVarsOfGS

\* one iteration of the loop in which func_eval raises: lines 495-497 for an
\* exception the handler catches; any other leaves run_gs
EvalRaises ==
    /\ gs_pc = "loop"
    /\ idx <= Len(search_elems)
    /\ func_eval \in {"tt_validator", "cv_validator"}
    /\ \E exc \in FitErrors :
          /\ evals' = Append(evals, [point |-> idx, outcome |-> exc,
                                     output |-> <<>>, acc |-> Zero,
                                     acc_std |-> Zero, result |-> NoMapping])
          /\ IF Catches(exc)
             THEN /\ run' = run + 1
                  /\ idx' = idx + 1
                  /\ UNCHANGED gs_pc
             ELSE /\ gs_pc' = "raised"
                  /\ UNCHANGED <<run, idx>>
    /\ UNCHANGED <<usr_input, y_test, func_eval, search_elems, result_list,
                   max_acc, max_acc_std, printed>>
    /\ UNCHANGED otherVarsOfGS

\* line 499, after the loop
RunGsPrint ==
    /\ gs_pc = "loop"
    /\ idx > Len(search_elems)
    /\ printed' = [shown |-> TRUE, acc |-> max_acc, std |-> max_acc_std]
    /\ gs_pc' = "done"
    /\ UNCHANGED <<usr_input, y_test, func_eval, search_elems, idx, result_list,
                   max_acc, max_acc_std, run, evals>>
    /\ UNCHANGED otherVarsOfGS

\* one iteration of the loop of lines 468-492 in which func_eval is
\* cv_validator and returns
CvEvalReturns ==
    /\ gs_pc = "loop"
    /\ idx <= Len(search_elems)
    /\ func_eval = "cv_validator"
    /\ \E outs \in [1..Len(labels_data) -> Labels] :
          \E r \in {CvValidator(search_elems[idx], labels_data, n_folds, outs)} :
          /\ r.status = "returned"
          /\ result_list' = Append(result_list, r.result)
          /\ IF Improves(r.acc, max_acc)
             THEN /\ max_acc' = r.acc
                  /\ max_acc_std' = r.acc_std
             ELSE UNCHANGED <<max_acc, max_acc_std>>
          /\ evals' = Append(evals, [point |-> idx, outcome |-> "ok",
                                     output |-> outs, acc |-> r.acc,
                                     acc_std |-> r.acc_std,
                                     result |-> r.result])
    /\ run' = run + 1
    /\ idx' = idx + 1
    /\ UNCHANGED <<usr_input, y_test, gs_pc, func_eval, search_elems, printed>>
    /\ UNCHANGED otherVarsOfGS

\* a dataset of n samples whose classes alternate
AlternatingLabels(n) == [i \in 1..n |-> IF i % 2 = 1 THEN 1 ELSE -1]

\* a sweep whose self.usr_input asks for a two-fold cross-validation of a
\* binary problem
InitSweepCV ==
    /\ \E n \in 2..MaxSamples : labels_data = AlternatingLabels(n)
    /\ n_folds = 2
    /\ cv_pc = "idle"
    /\ cv_result = NoResult
    /\ y_test = <<>>
    /\ \E h \in 0..MaxCvExp :
          usr_input = [clf_type          |-> "tsvm",
                       class_type        |-> "binary",
                       mc_scheme         |-> "ova",
                       kernel_type       |-> "linear",
                       test_method_tuple |-> <<"CV", n_folds>>,
                       C1_range          |-> <<0, h>>,
                       C2_range          |-> <<0, 0>>,
                       u_range           |-> <<0, 0>>]
    /\ gs_pc = "start"
    /\ func_eval = "unset"
    /\ search_elems = <<>>
    /\ idx = 0
    /\ result_list = <<>>
    /\ max_acc = Zero
    /\ max_acc_std = Zero
    /\ run = 0
    /\ printed = NothingPrinted
    /\ evals = <<>>

----------------------------------------------------------------------------
(* One call of initialize: model_selection.py 502-556 *)

\* the classifier families, problem types and multiclass schemes a caller
\* can name: the ones initialize tests for, and one it does not know
ClfTypes == {"tsvm", "lstsvm", "svm"}
ClassTypes == {"binary", "multiclass", "regression"}
McSchemes == {"ova", "ovo", "ecoc"}
\* evaluation-method tuples: the two names choose_validator tests for with a
\* parameter each, and a name it does not know
TestMethodTuples == {<<"CV", 5>>, <<"t_t_split", 30>>, <<"LOO", 0>>}

InitInitialize ==
    /\ in_args \in [clf_type          : ClfTypes,
                    class_type        : ClassTypes,
                    mc_scheme         : McSchemes,
                    kernel_type       : {"linear", "RBF"},
                    test_method_tuple : TestMethodTuples,
                    C1_range          : {<<0, 1>>},
                    C2_range          : {<<0, 0>>},
                    u_range           : {<<0, 0>>}]
    /\ in_pc = "call"
    /\ in_result = NoResult

IdleInitialize ==
    /\ in_args = NoUserInput
    /\ in_pc = "idle"
    /\ in_result = NoResult

\* initialize, lines 528-556: estimator is the clf_obj handed to Validator
\* (line 549), func_eval and search_elem the pair of line 556
InitializeCall ==
    /\ in_pc = "call"
    /\ \E i \in {Initialize(in_args)} :
          in_result' = [status      |-> i.search_elem.status,
                        exc         |-> i.search_elem.exc,
                        estimator   |-> i.estimator,
                        func_eval   |-> i.eval_method,
                        search_elem |-> i.search_elem.points]
    /\ in_pc' = "done"
    /\ UNCHANGED in_args
    /\ UNCHANGED <<metricsVars, searchVars, dataVars, gsVars, cvVars>>

----------------------------------------------------------------------------
(* One call of Validator.cv_validator: model_selection.py 163-239 *)

\* the points the call is made with
CvPoints == ParameterGrid(PowRange(<<0, 1>>, 1), PowRange(<<0, 0>>, 1), <<1>>)

\* the outcome of the call: KFold(k) raises ValueError for k < 2 (line 188),
\* its split raises ValueError for more folds than samples (line 200), exc
\* is what self.estimator.fit raises (line 209), "none" when it returns
CvCall(dict_param, labels, k, outs, exc) ==
    IF k < 2 \/ k > Len(labels)
    THEN [status |-> "raised", exc |-> "ValueError"]
    ELSE IF exc # "none"
    THEN [status |-> "raised", exc |-> exc]
    ELSE [status  |-> "returned",
          exc     |-> "none",
          splits  |-> KFoldSplit(Len(labels), k),
          outputs |-> outs,
          ret     |-> CvValidator(dict_param, labels, k, outs)]

InitCV ==
    /\ \E n \in 1..MaxSamples :
          /\ labels_data \in [1..n -> Labels]
          /\ n_folds \in 1..(n + 1)
    /\ cv_pc = "call"
    /\ cv_result = NoResult

IdleCV ==
    /\ labels_data = <<>>
    /\ n_folds = 0
    /\ cv_pc = "idle"
    /\ cv_result = NoResult

CvValidatorCall ==
    /\ cv_pc = "call"
    /\ \E p \in 1..Len(CvPoints), outs \in [1..Len(labels_data) -> Labels],
          exc \in FitErrors \cup {"none"} :
          cv_result' = CvCall(CvPoints[p], labels_data, n_folds, outs, exc)
    /\ cv_pc' = "done"
    /\ UNCHANGED <<labels_data, n_folds>>
    /\ UNCHANGED <<metricsVars, searchVars, dataVars, gsVars, initVars>>

----------------------------------------------------------------------------
(* The specifications *)

Init == InitGS /\ IdleMetrics /\ IdleSearch /\ IdleData /\ IdleInitialize /\ IdleCV
Next == RunGsStart \/ EvalReturns \/ EvalRaises \/ RunGsPrint
Spec == Init /\ [][Next]_vars

InitOfMetrics ==
    InitMetrics /\ IdleSearch /\ IdleData /\ IdleGS /\ IdleInitialize /\ IdleCV
NextOfMetrics == EvalMetricsCall
SpecMetrics == InitOfMetrics /\ [][NextOfMetrics]_vars

InitOfSearch ==
    InitSearch /\ IdleMetrics /\ IdleData /\ IdleGS /\ IdleInitialize /\ IdleCV
NextOfSearch == SearchSpaceCall
SpecSearch == InitOfSearch /\ [][NextOfSearch]_vars

InitOfData ==
    InitData /\ IdleMetrics /\ IdleSearch /\ IdleGS /\ IdleInitialize /\ IdleCV
NextOfData ==
    \/ \E shuffle \in BOOLEAN, normalize \in BOOLEAN : LoadData(shuffle, normalize)
    \/ GetData
    \/ GetDataInfo
SpecData == InitOfData /\ [][NextOfData]_vars

InitOfInitialize ==
    InitInitialize /\ IdleMetrics /\ IdleSearch /\ IdleData /\ IdleGS /\ IdleCV
NextOfInitialize == InitializeCall
SpecInitialize == InitOfInitialize /\ [][NextOfInitialize]_vars

InitOfCV ==
    InitCV /\ IdleMetrics /\ IdleSearch /\ IdleData /\ IdleGS /\ IdleInitialize
NextOfCV == CvValidatorCall
SpecCV == InitOfCV /\ [][NextOfCV]_vars

InitOfSweepCV ==
    InitSweepCV /\ IdleMetrics /\ IdleSearch /\ IdleData /\ IdleInitialize
NextOfSweepCV == RunGsStart \/ CvEvalReturns \/ EvalRaises \/ RunGsPrint
SpecSweepCV == InitOfSweepCV /\ [][NextOfSweepCV]_vars

----------------------------------------------------------------------------
(* Properties of eval_metrics (SpecMetrics) *)

OnlyPlusMinusOne(labels) == \A i \in 1..Len(labels) : labels[i] \in Labels

\* the samples with true label t and predicted label p
Bucket(t, p) == {i \in 1..Len(y_true) : y_true[i] = t /\ y_pred[i] = p}

\* C1: for label arrays of equal length that hold only +1 and -1, eval_metrics
\* returns tp, tn, fp, fn as the sizes of the four buckets (true, predicted) =
\* (1,1), (-1,-1), (-1,1), (1,-1), which partition the samples, so the four
\* counts add up to the number of samples; and for a non-empty array the
\* accuracy returned is (tp+tn)/sampleCount*100.
C1_CountsPartitionSamples ==
    (em_pc = "done" /\ OnlyPlusMinusOne(y_true) /\ OnlyPlusMinusOne(y_pred)) =>
        /\ em_result.status = "returned"
        /\ em_result.tp = Cardinality(Bucket(1, 1))
        /\ em_result.tn = Cardinality(Bucket(-1, -1))
        /\ em_result.fp = Cardinality(Bucket(-1, 1))
        /\ em_result.fn = Cardinality(Bucket(1, -1))
        /\ Bucket(1, 1) \cup Bucket(-1, -1) \cup Bucket(-1, 1) \cup Bucket(1, -1)
              = 1..Len(y_true)
        /\ em_result.tp + em_result.tn + em_result.fp + em_result.fn = Len(y_true)
        /\ Len(y_true) > 0 =>
              em_result.accuracy
                 = Frac((em_result.tp + em_result.tn) * 100, Len(y_true))

\* the example of the specification: one sample in each bucket, accuracy 50.0
C1_Witness ==
    /\ em_pc = "done"
    /\ y_true = <<1, 1, -1, -1>>
    /\ y_pred = <<1, -1, -1, 1>>
    /\ em_result.tp = 1 /\ em_result.tn = 1
    /\ em_result.fp = 1 /\ em_result.fn = 1
    /\ em_result.accuracy = <<50, 1>>

\* a score on its own: 0 when its denominator is 0, else the ratio times 100
RatioOrZero(n, d) == IF d = 0 THEN Zero ELSE Times100(Frac(n, d))

\* an F1 on its own, from the recall and precision (in percent) taken on
\* their own
F1OrZero(r, p) == IF RAdd(r, p) = Zero THEN Zero ELSE F1(r, p)

\* C2: each of the seven scores is computed independently: a score whose own
\* denominator is zero is 0, and every other score is its formula times 100.
C2_ScoresIndependent ==
    em_pc = "done" =>
        LET tp == em_result.tp
            tn == em_result.tn
            fp == em_result.fp
            fn == em_result.fn
        IN  /\ em_result.accuracy = RatioOrZero(tp + tn, tp + tn + fp + fn)
            /\ em_result.recall_p = RatioOrZero(tp, tp + fn)
            /\ em_result.precision_p = RatioOrZero(tp, tp + fp)
            /\ em_result.f1_p = F1OrZero(RatioOrZero(tp, tp + fn),
                                         RatioOrZero(tp, tp + fp))
            /\ em_result.recall_n = RatioOrZero(tn, tn + fp)
            /\ em_result.precision_n = RatioOrZero(tn, tn + fn)
            /\ em_result.f1_n = F1OrZero(RatioOrZero(tn, tn + fp),
                                         RatioOrZero(tn, tn + fn))

\* C3: eval_metrics never ends in an error, whatever the arrays hold (the
\* empty arrays included); when the true labels hold no +1 it returns
\* recall_positive = precision_positive = f1_positive = 0.
C3_NoZeroDivisionError ==
    em_pc = "done" =>
        /\ em_result.status = "returned"
        /\ (\A i \in 1..Len(y_true) : y_true[i] # 1) =>
              /\ em_result.recall_p = Zero
              /\ em_result.precision_p = Zero
              /\ em_result.f1_p = Zero

\* no positive true label, one positive prediction
C3_Witness ==
    /\ em_pc = "done"
    /\ y_true = <<-1, -1>>
    /\ y_pred = <<1, -1>>
    /\ em_result.status = "returned"
    /\ em_result.fp = 1
    /\ em_result.recall_p = Zero

----------------------------------------------------------------------------
(* Properties of search_space (SpecSearch) *)

\* the exponents low, low+step, ... up to high
ExponentsOf(r, step) == {e \in r[1]..r[2] : (e - r[1]) % step = 0}

CandidatesOf(r, step) == {Pow2(e) : e \in ExponentsOf(r, step)}

GammaCandidates ==
    IF ss_args.kernel_type = "RBF"
    THEN CandidatesOf(ss_args.u_range, ss_args.step)
    ELSE {<<1, 1>>}

PointsReturned == {ss_result.points[k] : k \in 1..Len(ss_result.points)}

\* C4: with search_type 'full', search_space returns the Cartesian product of
\* the C1, C2 and gamma candidates, each combination once: the candidates are
\* 2^e for e from low to high by step, gamma's being the single value 1 unless
\* the kernel is 'RBF'; so there are |C1|*|C2|*|gamma| points (6 for linear
\* with C1 (0,2) and C2 (0,1); 8 for RBF with (0,1),(0,1),(0,1)).
C4_FullIsCartesianProduct ==
    (ss_pc = "done" /\ ss_args.search_type = "full") =>
        LET c1 == CandidatesOf(ss_args.C1_range, ss_args.step)
            c2 == CandidatesOf(ss_args.C2_range, ss_args.step)
        IN  /\ ss_result.status = "returned"
            /\ PointsReturned = [C1 : c1, C2 : c2, gamma : GammaCandidates]
            /\ Len(ss_result.points) = Cardinality(PointsReturned)
            /\ Len(ss_result.points)
                  = Cardinality(c1) * Cardinality(c2) * Cardinality(GammaCandidates)
            /\ (/\ ss_args.kernel_type = "linear" /\ ss_args.step = 1
                /\ ss_args.C1_range = <<0, 2>> /\ ss_args.C2_range = <<0, 1>>)
               => Len(ss_result.points) = 6
            /\ (/\ ss_args.kernel_type = "RBF" /\ ss_args.step = 1
                /\ ss_args.C1_range = <<0, 1>> /\ ss_args.C2_range = <<0, 1>>
                /\ ss_args.u_range = <<0, 1>>)
               => /\ Len(ss_result.points) = 8
                  /\ {pt.gamma : pt \in PointsReturned} = {<<1, 1>>, <<2, 1>>}

\* the linear example: 3 x 2 x 1 points, gamma 1 in each
C4_Witness ==
    /\ ss_pc = "done"
    /\ ss_args.search_type = "full"
    /\ ss_args.kernel_type = "linear"
    /\ ss_args.step = 1
    /\ ss_args.C1_range = <<0, 2>>
    /\ ss_args.C2_range = <<0, 1>>
    /\ ss_args.u_range = <<0, 2>>
    /\ Len(ss_result.points) = 6
    /\ \A k \in 1..6 : ss_result.points[k].gamma = <<1, 1>>

\* C9 as stated: with search_type 'partial', search_space enumerates nothing
\* and returns to its caller, without a list of points and without an error.
C9_PartialReturnsNothing ==
    (ss_pc = "done" /\ ss_args.search_type = "partial") =>
        /\ ss_result.status = "returned"
        /\ ss_result.points = <<>>

\* C9 as amended: with search_type 'partial', search_space enumerates nothing
\* and ends in an error: its return statement reads the local param_grid,
\* which no branch has bound (UnboundLocalError); the caller gets no result.
C9_PartialRaisesUnboundLocal ==
    (ss_pc = "done" /\ ss_args.search_type = "partial") =>
        /\ ss_result.status = "raised"
        /\ ss_result.exc = "UnboundLocalError"
        /\ ss_result.points = <<>>

C9_Witness ==
    /\ ss_pc = "done"
    /\ ss_args.search_type = "partial"
    /\ ss_args.kernel_type = "RBF"
    /\ ss_args.C1_range = <<0, 1>>
    /\ ss_result.status = "raised"

----------------------------------------------------------------------------
(* Properties of the sweep of ThreadGS.run_gs (Spec) *)

IsOk(e) == e.outcome = "ok"

\* the evaluations that returned, in the order they were made
OkEvals == SelectSeq(evals, IsOk)

OkResults == [k \in 1..Len(OkEvals) |-> OkEvals[k].result]

\* 0 and the accuracies of the evaluations that returned
OkAccuracies == {Zero} \cup {OkEvals[k].acc : k \in 1..Len(OkEvals)}

Greatest(S) == CHOOSE m \in S : \A x \in S : ~RLess(m, x)

\* C5: a LinAlgError raised by the evaluation of a point does not end the
\* sweep: the points are visited in the order of the search space, the loop
\* goes on past a point that failed so, and when the sweep is done every point
\* has been visited; the results list holds the mappings of exactly the points
\* whose evaluation returned, in order (a failing point adds nothing); and the
\* best accuracy printed is the greatest accuracy of those points (0 if none
\* is above 0).
C5_SingularPointIsSkipped ==
    /\ \A k \in 1..Len(evals) :
          /\ evals[k].point = k
          /\ evals[k].outcome = "LinAlgError" => idx > k
    /\ result_list = OkResults
    /\ gs_pc = "done" =>
          /\ Len(evals) = Len(search_elems)
          /\ printed.shown
          /\ printed.acc = Greatest(OkAccuracies)

\* a sweep of three points: the first fails with LinAlgError, the two after it
\* are evaluated, and the best of them is printed
C5_Witness ==
    /\ gs_pc = "done"
    /\ Len(search_elems) = 3
    /\ Len(evals) = 3
    /\ evals[1].outcome = "LinAlgError"
    /\ evals[2].outcome = "ok" /\ evals[2].acc = <<50, 1>>
    /\ evals[3].outcome = "ok" /\ evals[3].acc = <<100, 1>>
    /\ Len(result_list) = 2
    /\ printed.acc = <<100, 1>>

\* C8: tt_validator's second result is a standard deviation of exactly 0.0,
\* whatever the test labels, the predictions and the hyper-parameter point,
\* and its first result is the accuracy eval_metrics computes from the test
\* labels and the estimator's predictions for them.
C8_TrainTestStdIsZero ==
    \A k \in 1..Len(evals) :
        (func_eval = "tt_validator" /\ evals[k].outcome = "ok") =>
            /\ evals[k].acc_std = Zero
            /\ evals[k].acc = EvalMetrics(y_test, evals[k].output).accuracy
            /\ evals[k].result.accuracy = evals[k].acc

\* an evaluation with a non-zero accuracy at a point with C1 = 2
C8_Witness ==
    /\ func_eval = "tt_validator"
    /\ Len(evals) >= 2
    /\ evals[2].outcome = "ok"
    /\ evals[2].acc = <<50, 1>>
    /\ evals[2].acc_std = Zero
    /\ evals[2].result.C1 = <<2, 1>>

\* C10: an exception of func_eval that is not a LinAlgError is not caught: it
\* leaves run_gs at the point that raised it, so that point is the last one
\* evaluated, the loop does not advance, and no "Best Acc" line is printed.
C10_OtherErrorAbortsSweep ==
    \A k \in 1..Len(evals) :
        evals[k].outcome \notin {"ok", "LinAlgError"} =>
            /\ k = Len(evals)
            /\ gs_pc = "raised"
            /\ idx = k
            /\ ~printed.shown
            /\ ~ENABLED Next

\* the second of three points raises a ValueError: the third is never reached
C10_Witness ==
    /\ gs_pc = "raised"
    /\ Len(search_elems) = 3
    /\ Len(evals) = 2
    /\ evals[1].outcome = "ok"
    /\ evals[2].outcome = "ValueError"
    /\ ~printed.shown

----------------------------------------------------------------------------
(* Properties of DataReader (SpecData) *)

\* C6: load_data on a file of N+1 rows stores N samples when the reader was
\* built with header=True and N+1 samples when it was built with header=False.
C6_HeaderDecidesSampleCount ==
    (dr_last.op = "load_data" /\ dr_last.status = "returned") =>
        /\ Len(attrs.y_train) = (IF header THEN Len(file) - 1 ELSE Len(file))
        /\ Len(attrs.X_train.rows) = Len(attrs.y_train)

\* C7: while no load_data has completed, get_data and get_data_info fail with
\* the missing-data error (AttributeError) and return no data; once a
\* load_data has completed, get_data returns the feature matrix, the label
\* vector and the base filename the last completed load_data stored.
C7_GetDataReturnsLastLoad ==
    /\ (dr_last.op \in {"get_data", "get_data_info"} /\ ~completed.any) =>
          /\ dr_last.status = "raised"
          /\ dr_last.exc = "AttributeError"
    /\ (dr_last.op = "get_data" /\ completed.any) =>
          /\ dr_last.status = "returned"
          /\ dr_last.X = completed.X_train
          /\ dr_last.y = completed.y_train
          /\ dr_last.filename = completed.filename


----------------------------------------------------------------------------
(* Properties of choose_validator and initialize (SpecInitialize) *)

\* the evaluation function the documentation of choose_validator promises
ExpectedValidator(problem_type, method) ==
    CASE problem_type = "binary" /\ method = "CV"        -> "cv_validator"
      [] problem_type = "binary" /\ method = "t_t_split" -> "tt_validator"
      [] problem_type = "multiclass" /\ method = "CV"    -> "cv_validator_mc"
      [] OTHER                                            -> "None"

\* C11: choose_validator returns cv_validator for (binary, CV), tt_validator
\* for (binary, t_t_split) and cv_validator_mc for (multiclass, CV); for every
\* other pair of problem type and evaluation-method name it returns None, and
\* no error is raised
C11_ChooseValidatorTable ==
    in_pc = "done" =>
        /\ in_result.status = "returned"
        /\ in_result.func_eval =
              ExpectedValidator(in_args.class_type, in_args.test_method_tuple[1])

\* a multiclass problem asked to be evaluated on a train/test split got None
C11_Witness ==
    /\ in_pc = "done"
    /\ in_args.class_type = "multiclass"
    /\ in_args.test_method_tuple[1] = "t_t_split"
    /\ in_result.status = "returned"
    /\ in_result.func_eval = "None"

\* no estimator at all: clf_obj is None
AbsentEstimator == [wrapper |-> "none", estimator |-> "None"]

UnknownFamily == in_args.clf_type \notin {"tsvm", "lstsvm"}

UnknownScheme ==
    in_args.class_type = "multiclass" /\ in_args.mc_scheme \notin {"ova", "ovo"}

\* C12 as stated: with an unrecognized classifier family, or an unrecognized
\* multiclass scheme of a multiclass problem, the Validator is built with no
\* estimator (None) and initialize raises nothing
C12_UnrecognizedYieldsNoEstimator ==
    (in_pc = "done" /\ (UnknownFamily \/ UnknownScheme)) =>
        /\ in_result.status = "returned"
        /\ in_result.estimator = AbsentEstimator

\* C12: initialize raises nothing; an unrecognized classifier family leaves
\* the base estimator None, which reaches the Validator as None unless the
\* scheme of a multiclass problem is ova or ovo, and then wrapped in that
\* scheme's classifier; an unrecognized multiclass scheme leaves the
\* estimator of the classifier family unwrapped, not None
C12_UnrecognizedFamilyOrScheme ==
    in_pc = "done" =>
        /\ in_result.status = "returned"
        /\ UnknownFamily =>
              /\ in_result.estimator.estimator = "None"
              /\ (in_result.estimator = AbsentEstimator) <=>
                     (in_args.class_type # "multiclass" \/ UnknownScheme)
        /\ (UnknownScheme /\ ~UnknownFamily) =>
              /\ in_result.estimator.wrapper = "none"
              /\ in_result.estimator.estimator =
                     (IF in_args.clf_type = "tsvm" THEN "TSVM" ELSE "LSTSVM")

\* a multiclass problem with a scheme initialize does not know was given the
\* bare TSVM estimator
C12_Witness ==
    /\ in_pc = "done"
    /\ UnknownScheme
    /\ in_args.clf_type = "tsvm"
    /\ in_result.estimator = [wrapper |-> "none", estimator |-> "TSVM"]

----------------------------------------------------------------------------
(* Properties of cv_validator (SpecCV) *)

Range(f) == {f[i] : i \in DOMAIN f}

\* the iterations of the call that hold sample i out, and those that train on it
HeldOutIn(i) ==
    {j \in DOMAIN cv_result.splits : i \in Range(cv_result.splits[j].test_index)}
TrainedIn(i) ==
    {j \in DOMAIN cv_result.splits : i \in Range(cv_result.splits[j].train_index)}

\* C14: when cv_validator with K folds returns for a dataset of n >= K
\* samples labelled +1 or -1, with +1 or -1 predictions, it went through K
\* iterations; in each, the training and held-out indices are disjoint and
\* together cover the dataset; every sample is held out in exactly one
\* iteration and trained on in the other K-1; and the summed counts of the
\* mapping satisfy tp + tn + fp + fn = n
C14_FoldsPartitionSamples ==
    (cv_pc = "done" /\ cv_result.status = "returned") =>
        LET n == Len(labels_data)
        IN  /\ n >= n_folds
            /\ Len(cv_result.splits) = n_folds
            /\ \A j \in DOMAIN cv_result.splits :
                  /\ Range(cv_result.splits[j].train_index)
                        \cap Range(cv_result.splits[j].test_index) = {}
                  /\ Range(cv_result.splits[j].train_index)
                        \cup Range(cv_result.splits[j].test_index) = 1..n
                  /\ Len(cv_result.splits[j].train_index)
                        + Len(cv_result.splits[j].test_index) = n
            /\ \A i \in 1..n :
                  /\ Cardinality(HeldOutIn(i)) = 1
                  /\ Cardinality(TrainedIn(i)) = n_folds - 1
            /\ cv_result.ret.status = "returned"
            /\ cv_result.ret.result.tp + cv_result.ret.result.tn
                  + cv_result.ret.result.fp + cv_result.ret.result.fn = n

\* a call returned whose folds are of unequal sizes and whose estimator
\* mispredicted some held-out sample
C14_Witness ==
    /\ cv_pc = "done"
    /\ cv_result.status = "returned"
    /\ Len(labels_data) % n_folds # 0
    /\ n_folds > 2
    /\ cv_result.ret.result.fp + cv_result.ret.result.fn > 0
    /\ cv_result.ret.result.tp + cv_result.ret.result.tn > 0

----------------------------------------------------------------------------
(* Properties of the sweep with cv_validator evaluating (SpecSweepCV) *)

\* the positions in OkEvals of the evaluations whose accuracy is acc
ReachedBy(acc) == {k \in 1..Len(OkEvals) : OkEvals[k].acc = acc}

EarliestOf(S) == CHOOSE k \in S : \A l \in S : k <= l

\* C13: at every step of the sweep of run_gs, the tracked best accuracy is
\* the greatest of 0 and the accuracies of the points evaluated successfully
\* so far; the tracked deviation is the one returned by the earliest of those
\* points whose accuracy is that maximum (0 while no such point has an
\* accuracy above 0); and the results list holds the mappings of exactly the
\* successful points, in the order of the search space
C13_BestIsEarliestMaximum ==
    gs_pc \in {"loop", "done", "raised"} =>
        /\ max_acc = Greatest(OkAccuracies)
        /\ IF RLess(Zero, max_acc)
           THEN /\ ReachedBy(max_acc) # {}
                /\ max_acc_std = OkEvals[EarliestOf(ReachedBy(max_acc))].acc_std
           ELSE max_acc_std = Zero
        /\ result_list = OkResults
        /\ \A k \in 1..Len(OkEvals) :
              /\ OkEvals[k].result.C1 = search_elems[OkEvals[k].point].C1
              /\ k > 1 => OkEvals[k - 1].point < OkEvals[k].point

\* two points reached the same best accuracy with different deviations, the
\* deviation of the first is not 0, and it is the one that is tracked
C13_Witness ==
    /\ gs_pc = "done"
    /\ Len(OkEvals) >= 2
    /\ RLess(Zero, max_acc)
    /\ OkEvals[1].acc = max_acc
    /\ OkEvals[2].acc = max_acc
    /\ OkEvals[1].acc_std # Zero
    /\ OkEvals[2].acc_std # OkEvals[1].acc_std
    /\ max_acc_std = OkEvals[1].acc_std
    /\ printed.std = OkEvals[1].acc_std

=============================================================================
